---------------------------- MODULE Spec2Model ----------------------------
(***************************************************************************)
(* Workflow graph model of comfy-mcp-server: the workflow tools            *)
(* (tools/workflow.py) and the pydantic Workflow model (models.py).        *)
(*                                                                         *)
(* Python objects.  Every dict is an object on the heap (dicts are the     *)
(* only things the tools mutate in place); a dict is kept as the sequence  *)
(* of its <<key, value>> items in insertion order.  The other values are   *)
(* immutable and tagged:                                                   *)
(*    <<"str", chars>>   <<"int", n>>   <<"float", n, fracDigits>>         *)
(*    <<"list", items>>  <<"ref", address>> (a dict on the heap)           *)
(*    <<"dict", items>>  (a dict written out, not yet on the heap)         *)
(*    <<"none">>         <<"bool", b>>                                     *)
(* A text (a str's content, a file's content, a JSON document) is a        *)
(* sequence of characters.  The JSON punctuation, the digits, the blank    *)
(* and the newline between JSON tokens are single characters; a run of     *)
(* characters inside a str that json writes as it is ("class_type",        *)
(* "A beautiful landscape") is kept as one symbol of the alphabet, and so  *)
(* are JSON's words null, true and false.                                  *)
(***************************************************************************)
EXTENDS Integers, Sequences, FiniteSets, TLC

Quote == "\""
Backslash == "\\"
Newline == "\n"
Blank == " "

DigitChars == <<"0", "1", "2", "3", "4", "5", "6", "7", "8", "9">>
IsDigit(c) == \E d \in 1..10 : DigitChars[d] = c
DigitVal(c) == (CHOOSE d \in 1..10 : DigitChars[d] = c) - 1

Range(s) == {s[i] : i \in 1..Len(s)}

\* ---------------------------------------------------------------- dicts

\* key in d
DictHas(d, k) == \E i \in 1..Len(d) : d[i][1] = k
DictIndex(d, k) == CHOOSE i \in 1..Len(d) : d[i][1] = k
\* d[key]  (the caller checks DictHas first: a missing key is a KeyError)
DictGet(d, k) == d[DictIndex(d, k)][2]
\* d[key] = value: an existing key keeps its place, a new key goes last
DictSet(d, k, v) ==
    IF DictHas(d, k)
    THEN [d EXCEPT ![DictIndex(d, k)] = <<k, v>>]
    ELSE Append(d, <<k, v>>)
\* del d[key]
DictDel(d, k) ==
    LET at == DictIndex(d, k)
    IN  SubSeq(d, 1, at - 1) \o SubSeq(d, at + 1, Len(d))
DictKeys(d) == [i \in 1..Len(d) |-> d[i][1]]
DictKeySet(d) == {d[i][1] : i \in 1..Len(d)}

\* ---------------------------------------------------------------- str()

RECURSIVE IntToChars(_)
IntToChars(n) ==
    IF n < 10
    THEN <<DigitChars[n + 1]>>
    ELSE IntToChars(n \div 10) \o <<DigitChars[(n % 10) + 1]>>

RECURSIVE CharsToInt(_)
CharsToInt(cs) ==
    IF Len(cs) = 0
    THEN 0
    ELSE 10 * CharsToInt(SubSeq(cs, 1, Len(cs) - 1)) + DigitVal(cs[Len(cs)])

\* float("3.50") is 3.5: the fraction without its trailing zeros, one digit
\* at least
RECURSIVE CanonFrac(_)
CanonFrac(fr) ==
    IF Len(fr) > 1 /\ fr[Len(fr)] = "0"
    THEN CanonFrac(SubSeq(fr, 1, Len(fr) - 1))
    ELSE fr

FloatChars(v) == IntToChars(v[2]) \o <<".">> \o v[3]

\* ---------------------------------------------------------------- json.dumps

\* A dict's items, wherever it lives
ItemsOf(h, v) == IF v[1] = "ref" THEN h[v[2]] ELSE v[2]
IsDict(v) == v[1] \in {"ref", "dict"}

RECURSIVE EscapeChars(_)
EscapeChars(cs) ==
    IF Len(cs) = 0
    THEN <<>>
    ELSE (IF Head(cs) \in {Quote, Backslash}
          THEN <<Backslash, Head(cs)>>
          ELSE IF Head(cs) = Newline
               THEN <<Backslash, "n">>
               ELSE <<Head(cs)>>) \o EscapeChars(Tail(cs))

EncodeString(cs) == <<Quote>> \o EscapeChars(cs) \o <<Quote>>

Spaces(n) == [i \in 1..n |-> Blank]
\* indent < 0 stands for indent=None
NewlineIndent(indent, level) ==
    IF indent < 0 THEN <<>> ELSE <<Newline>> \o Spaces(indent * level)
ItemSeparator(indent, level) ==
    IF indent < 0 THEN <<",", Blank>> ELSE <<",">> \o NewlineIndent(indent, level)
KeySeparator == <<":", Blank>>

RECURSIVE Encode(_, _, _, _)
RECURSIVE EncodeList(_, _, _, _)
RECURSIVE EncodeItems(_, _, _, _)
Encode(h, v, indent, level) ==
    CASE v[1] = "str" -> EncodeString(v[2])
      [] v[1] = "int" -> IntToChars(v[2])
      [] v[1] = "float" -> FloatChars(v)
      [] v[1] = "none" -> <<"null">>
      [] v[1] = "bool" -> IF v[2] THEN <<"true">> ELSE <<"false">>
      [] v[1] = "list" ->
            IF Len(v[2]) = 0
            THEN <<"[", "]">>
            ELSE <<"[">> \o NewlineIndent(indent, level + 1)
                 \o EncodeList(h, v[2], indent, level + 1)
                 \o NewlineIndent(indent, level) \o <<"]">>
      [] IsDict(v) ->
            IF Len(ItemsOf(h, v)) = 0
            THEN <<"{", "}">>
            ELSE <<"{">> \o NewlineIndent(indent, level + 1)
                 \o EncodeItems(h, ItemsOf(h, v), indent, level + 1)
                 \o NewlineIndent(indent, level) \o <<"}">>
EncodeList(h, items, indent, level) ==
    Encode(h, Head(items), indent, level)
    \o (IF Len(items) = 1
        THEN <<>>
        ELSE ItemSeparator(indent, level) \o EncodeList(h, Tail(items), indent, level))
EncodeItems(h, items, indent, level) ==
    EncodeString(Head(items)[1]) \o KeySeparator
    \o Encode(h, Head(items)[2], indent, level)
    \o (IF Len(items) = 1
        THEN <<>>
        ELSE ItemSeparator(indent, level) \o EncodeItems(h, Tail(items), indent, level))

\* json.dumps(obj, indent=indent) of the object v in heap h
JsonDumps(h, v, indent) == Encode(h, v, indent, 0)

\* ---------------------------------------------------------------- json.loads

\* A scan result: <<ok, value, position after it>>
ScanFail == <<FALSE, <<"fail">>, 0>>

IsWs(c) == c \in {Blank, Newline}
RECURSIVE SkipWs(_, _)
SkipWs(t, i) == IF i <= Len(t) /\ IsWs(t[i]) THEN SkipWs(t, i + 1) ELSE i

\* the characters of a string, from the position after its opening quote
RECURSIVE ScanString(_, _, _)
ScanString(t, i, acc) ==
    CASE i > Len(t) -> ScanFail
      [] i <= Len(t) /\ t[i] = Quote -> <<TRUE, <<"str", acc>>, i + 1>>
      [] i <= Len(t) /\ t[i] = Newline -> ScanFail
      [] i < Len(t) /\ t[i] = Backslash /\ t[i + 1] \in {Quote, Backslash} ->
            ScanString(t, i + 2, Append(acc, t[i + 1]))
      [] i < Len(t) /\ t[i] = Backslash /\ t[i + 1] = "n" ->
            ScanString(t, i + 2, Append(acc, Newline))
      [] i <= Len(t) /\ t[i] = Backslash -> ScanFail
      [] OTHER -> ScanString(t, i + 1, Append(acc, t[i]))

RECURSIVE DigitsEnd(_, _)
DigitsEnd(t, i) == IF i <= Len(t) /\ IsDigit(t[i]) THEN DigitsEnd(t, i + 1) ELSE i

\* (0|[1-9]\d*)(\.\d+)? at position i, where t[i] is a digit
ScanNumber(t, i) ==
    LET e1 == IF t[i] = "0" THEN i + 1 ELSE DigitsEnd(t, i + 1)
        frac == e1 + 1 <= Len(t) /\ t[e1] = "." /\ IsDigit(t[e1 + 1])
        e2 == DigitsEnd(t, e1 + 2)
    IN  IF frac
        THEN <<TRUE, <<"float", CharsToInt(SubSeq(t, i, e1 - 1)),
                        CanonFrac(SubSeq(t, e1 + 1, e2 - 1))>>, e2>>
        ELSE <<TRUE, <<"int", CharsToInt(SubSeq(t, i, e1 - 1))>>, e1>>

\* the character at position i, or "" past the end
At(t, i) == IF i <= Len(t) THEN t[i] ELSE ""

RECURSIVE ScanOnce(_, _)
RECURSIVE ScanArray(_, _, _)
RECURSIVE ScanObject(_, _, _)
ScanOnce(t, i) ==
    CASE At(t, i) = Quote -> ScanString(t, i + 1, <<>>)
      [] At(t, i) = "{" ->
            IF At(t, SkipWs(t, i + 1)) = "}"
            THEN <<TRUE, <<"dict", <<>>>>, SkipWs(t, i + 1) + 1>>
            ELSE ScanObject(t, SkipWs(t, i + 1), <<>>)
      [] At(t, i) = "[" ->
            IF At(t, SkipWs(t, i + 1)) = "]"
            THEN <<TRUE, <<"list", <<>>>>, SkipWs(t, i + 1) + 1>>
            ELSE ScanArray(t, SkipWs(t, i + 1), <<>>)
      [] IsDigit(At(t, i)) -> ScanNumber(t, i)
      [] At(t, i) = "null" -> <<TRUE, <<"none">>, i + 1>>
      [] At(t, i) = "true" -> <<TRUE, <<"bool", TRUE>>, i + 1>>
      [] At(t, i) = "false" -> <<TRUE, <<"bool", FALSE>>, i + 1>>
      [] OTHER -> ScanFail
\* the items of an array, from the position of the next item
ScanArray(t, i, acc) ==
    LET r == ScanOnce(t, i)
        j == SkipWs(t, r[3])
    IN  CASE ~r[1] -> ScanFail
          [] r[1] /\ At(t, j) = "]" -> <<TRUE, <<"list", Append(acc, r[2])>>, j + 1>>
          [] r[1] /\ At(t, j) = "," -> ScanArray(t, SkipWs(t, j + 1), Append(acc, r[2]))
          [] OTHER -> ScanFail
\* the items of an object, from the position of the next key's quote
ScanObject(t, i, acc) ==
    LET k == IF At(t, i) = Quote THEN ScanString(t, i + 1, <<>>) ELSE ScanFail
        c == SkipWs(t, k[3])
        r == IF k[1] /\ At(t, c) = ":" THEN ScanOnce(t, SkipWs(t, c + 1)) ELSE ScanFail
        j == SkipWs(t, r[3])
    IN  CASE ~r[1] -> ScanFail
          [] r[1] /\ At(t, j) = "}" ->
                <<TRUE, <<"dict", DictSet(acc, k[2][2], r[2])>>, j + 1>>
          [] r[1] /\ At(t, j) = "," ->
                ScanObject(t, SkipWs(t, j + 1), DictSet(acc, k[2][2], r[2]))
          [] OTHER -> ScanFail

\* json.loads(text): <<TRUE, value>>, or <<FALSE, _>> for a JSONDecodeError
JsonLoads(t) ==
    LET r == ScanOnce(t, SkipWs(t, 1))
    IN  IF r[1] /\ SkipWs(t, r[3]) = Len(t) + 1
        THEN <<TRUE, r[2]>>
        ELSE <<FALSE, <<"fail">>>>

\* ---------------------------------------------------------------- the heap

\* The dicts of a written-out value put on the heap: <<heap, value>>.
\* (Each item is put there before the next one is looked at: the guard on r.)
RECURSIVE Materialize(_, _)
RECURSIVE MaterializeList(_, _, _)
RECURSIVE MaterializeItems(_, _, _)
Materialize(h, v) ==
    CASE v[1] = "list" ->
            LET r == MaterializeList(h, v[2], <<>>) IN <<r[1], <<"list", r[2]>>>>
      [] v[1] = "dict" ->
            LET r == MaterializeItems(h, v[2], <<>>)
            IN  <<Append(r[1], r[2]), <<"ref", Len(r[1]) + 1>>>>
      [] OTHER -> <<h, v>>
MaterializeList(h, items, acc) ==
    LET r == Materialize(h, Head(items))
    IN  CASE Len(items) = 0 -> <<h, acc>>
          [] Len(items) > 0 /\ Len(r) = 2 ->
                MaterializeList(r[1], Tail(items), Append(acc, r[2]))
MaterializeItems(h, items, acc) ==
    LET r == Materialize(h, Head(items)[2])
    IN  CASE Len(items) = 0 -> <<h, acc>>
          [] Len(items) > 0 /\ Len(r) = 2 ->
                MaterializeItems(r[1], Tail(items), Append(acc, <<Head(items)[1], r[2]>>))

\* The content of a value: every dict as the function from its keys (so that
\* = is Python's ==, which ignores the order of a dict's items), and 3.0 as 3
RECURSIVE Content(_, _)
Content(h, v) ==
    CASE v[1] = "list" -> <<"list", [i \in 1..Len(v[2]) |-> Content(h, v[2][i])]>>
      [] IsDict(v) ->
            LET d == ItemsOf(h, v)
            IN  <<"dict", [k \in DictKeySet(d) |-> Content(h, DictGet(d, k))]>>
      [] v[1] = "float" -> IF v[3] = <<"0">> THEN <<"int", v[2]>> ELSE v
      [] OTHER -> v

\* A value written out: every dict of the heap it reaches, in place
RECURSIVE Deref(_, _)
Deref(h, v) ==
    CASE v[1] = "list" -> <<"list", [i \in 1..Len(v[2]) |-> Deref(h, v[2][i])]>>
      [] IsDict(v) ->
            LET d == ItemsOf(h, v)
            IN  <<"dict", [i \in 1..Len(d) |-> <<d[i][1], Deref(h, d[i][2])>>]>>
      [] OTHER -> v

\* ---------------------------------------------------------------- TEMPLATES

\* A str of one symbol, a node (a dict literal with class_type and inputs)
Str(w) == <<"str", <<w>>>>
Node(class_type, inputs) ==
    <<"dict", << <<<<"class_type">>, Str(class_type)>>,
                 <<<<"inputs">>, <<"dict", inputs>>>> >> >>

\* The dict literal TEMPLATES, written out
TEMPLATES_literal ==
    <<"dict", <<
      << <<"empty">>, <<"dict", <<>>>> >>,
      << <<"fal-flux-dev">>, <<"dict", <<
           << <<"1">>, Node("RemoteCheckpointLoader_fal",
                            << <<<<"ckpt_name">>, Str("fal-ai/flux/dev")>> >>) >>,
           << <<"2">>, Node("StringInput_fal",
                            << <<<<"text">>, Str("A beautiful landscape")>> >>) >>,
           << <<"3">>, Node("IntegerInput_fal", << <<<<"value">>, <<"int", 1024>>>> >>) >>,
           << <<"4">>, Node("IntegerInput_fal", << <<<<"value">>, <<"int", 1024>>>> >>) >>,
           << <<"5">>, Node("IntegerInput_fal", << <<<<"value">>, <<"int", 28>>>> >>) >>,
           << <<"6">>, Node("FloatInput_fal", << <<<<"value">>, <<"float", 3, <<"5">>>>>> >>) >>,
           << <<"7">>, Node("SaveImage_fal",
                            << <<<<"filename_prefix">>, Str("flux_output")>>,
                               <<<<"images">>, <<"list", <<Str("1"), <<"int", 0>>>>>>>> >>) >>
         >> >> >>,
      << <<"fal-flux-schnell">>, <<"dict", <<
           << <<"1">>, Node("RemoteCheckpointLoader_fal",
                            << <<<<"ckpt_name">>, Str("fal-ai/flux/schnell")>> >>) >>,
           << <<"2">>, Node("StringInput_fal",
                            << <<<<"text">>, Str("A beautiful landscape")>> >>) >>,
           << <<"3">>, Node("SaveImage_fal",
                            << <<<<"filename_prefix">>, Str("flux_schnell")>>,
                               <<<<"images">>, <<"list", <<Str("1"), <<"int", 0>>>>>>>> >>) >>
         >> >> >>
    >> >>

\* The module is imported: the literal's dicts are built, TEMPLATES names the
\* outermost one
ImportModule == Materialize(<<>>, TEMPLATES_literal)
TEMPLATES == ImportModule[2]

\* ---------------------------------------------------------------- str(), repr()

RECURSIVE ReprEscape(_, _)
ReprEscape(cs, q) ==
    IF Len(cs) = 0
    THEN <<>>
    ELSE (IF Head(cs) \in {Backslash, q}
          THEN <<Backslash, Head(cs)>>
          ELSE IF Head(cs) = Newline
               THEN <<Backslash, "n">>
               ELSE <<Head(cs)>>) \o ReprEscape(Tail(cs), q)

RECURSIVE PyRepr(_, _)
RECURSIVE ReprList(_, _)
RECURSIVE ReprItems(_, _)
PyRepr(h, v) ==
    CASE v[1] = "str" ->
            LET q == IF "'" \in Range(v[2]) /\ Quote \notin Range(v[2]) THEN Quote ELSE "'"
            IN  <<q>> \o ReprEscape(v[2], q) \o <<q>>
      [] v[1] = "int" -> IntToChars(v[2])
      [] v[1] = "float" -> FloatChars(v)
      [] v[1] = "none" -> <<"None">>
      [] v[1] = "bool" -> IF v[2] THEN <<"True">> ELSE <<"False">>
      [] v[1] = "list" -> <<"[">> \o ReprList(h, v[2]) \o <<"]">>
      [] IsDict(v) -> <<"{">> \o ReprItems(h, ItemsOf(h, v)) \o <<"}">>
ReprList(h, items) ==
    IF Len(items) = 0 THEN <<>>
    ELSE PyRepr(h, Head(items))
         \o (IF Len(items) = 1 THEN <<>> ELSE <<",", Blank>> \o ReprList(h, Tail(items)))
ReprItems(h, items) ==
    IF Len(items) = 0 THEN <<>>
    ELSE PyRepr(h, <<"str", Head(items)[1]>>) \o <<":", Blank>> \o PyRepr(h, Head(items)[2])
         \o (IF Len(items) = 1 THEN <<>> ELSE <<",", Blank>> \o ReprItems(h, Tail(items)))

\* str(v)
PyStr(h, v) == IF v[1] = "str" THEN v[2] ELSE PyRepr(h, v)

\* ---------------------------------------------------------------- models.py

\* ErrorResponse.not_found(resource, suggestion).model_dump()
ErrorResponse_not_found(resource, suggestion) ==
    <<"dict", << <<<<"error">>, <<"str", resource \o <<" not found">>>>>>,
                 <<<<"code">>, Str("NOT_FOUND")>>,
                 <<<<"details">>, <<"none">>>>,
                 <<<<"suggestion">>, <<"str", suggestion>>>> >> >>

\* ErrorResponse.not_configured(setting).model_dump()
ErrorResponse_not_configured(setting) ==
    <<"dict", << <<<<"error">>, <<"str", setting \o <<" not configured">>>>>>,
                 <<<<"code">>, Str("NOT_CONFIGURED")>>,
                 <<<<"details">>, <<"none">>>>,
                 <<<<"suggestion">>,
                   <<"str", <<"Set the ">> \o setting \o <<" environment variable">>>>>> >> >>

\* ---------------------------------------------------------------- the tools
\* A tool takes the heap and its arguments and gives <<heap, outcome>>, the
\* outcome <<"return", value>> or <<"raise", exception>>.

create_workflow(h) ==
    LET r == Materialize(h, <<"dict", <<>>>>)
    IN  <<r[1], <<"return", r[2]>>>>

\* add_node that stores the node without its inputs
add_node_bare(h, workflow, node_id, node_type, inputs) ==
    LET node == << <<<<"class_type">>, node_type>> >>
        h1 == Append(h, node)
    IN  <<[h1 EXCEPT ![workflow[2]] = DictSet(h1[workflow[2]], node_id, <<"ref", Len(h1)>>)],
          <<"return", workflow>>>>

\* add_node that keeps the node already at node_id (setdefault)
add_node_setdefault(h, workflow, node_id, node_type, inputs) ==
    LET node == << <<<<"class_type">>, node_type>>, <<<<"inputs">>, inputs>> >>
        h1 == Append(h, node)
    IN  IF DictHas(h[workflow[2]], node_id)
        THEN <<h, <<"return", workflow>>>>
        ELSE <<[h1 EXCEPT ![workflow[2]] =
                   DictSet(h1[workflow[2]], node_id, <<"ref", Len(h1)>>)],
               <<"return", workflow>>>>

\* workflow[node_id] = {"class_type": node_type, "inputs": inputs}
add_node(h, workflow, node_id, node_type, inputs) ==
    LET node == << <<<<"class_type">>, node_type>>, <<<<"inputs">>, inputs>> >>
        h1 == Append(h, node)
    IN  <<[h1 EXCEPT ![workflow[2]] = DictSet(h1[workflow[2]], node_id, <<"ref", Len(h1)>>)],
          <<"return", workflow>>>>

\* remove_node that also deletes the nodes connected to the one it removes
remove_node_cascade(h, workflow, node_id) ==
    LET Refers(v) == v[1] = "list" /\ Len(v[2]) = 2 /\ v[2][1] = <<"str", node_id>>
        Keeps(item) ==
            /\ item[1] # node_id
            /\ LET d == ItemsOf(h, item[2])
               IN  DictHas(d, <<"inputs">>) =>
                      \A i \in 1..Len(ItemsOf(h, DictGet(d, <<"inputs">>))) :
                          ~Refers(ItemsOf(h, DictGet(d, <<"inputs">>))[i][2])
    IN  <<[h EXCEPT ![workflow[2]] = SelectSeq(h[workflow[2]], Keeps)], <<"return", workflow>>>>

remove_node(h, workflow, node_id) ==
    IF DictHas(h[workflow[2]], node_id)
    THEN <<[h EXCEPT ![workflow[2]] = DictDel(h[workflow[2]], node_id)], <<"return", workflow>>>>
    ELSE <<h, <<"return", workflow>>>>

update_node_input(h, workflow, node_id, input_name, value) ==
    IF ~DictHas(h[workflow[2]], node_id)
    THEN <<h, <<"return", workflow>>>>
    ELSE
    LET loaded == JsonLoads(value)
        parsed == IF loaded[1] THEN Materialize(h, loaded[2]) ELSE <<h, <<"str", value>>>>
        node == DictGet(h[workflow[2]], node_id)
    IN  IF ~DictHas(ItemsOf(h, node), <<"inputs">>)
        THEN <<h, <<"raise", "KeyError">>>>
        ELSE LET inputs == DictGet(ItemsOf(h, node), <<"inputs">>)
             IN  <<[parsed[1] EXCEPT ![inputs[2]] =
                         DictSet(parsed[1][inputs[2]], input_name, parsed[2])],
                   <<"return", workflow>>>>

\* get_workflow_template that returns the entry of TEMPLATES itself
get_workflow_template_entry(h, template_name) ==
    IF ~DictHas(h[TEMPLATES[2]], template_name)
    THEN <<h, <<"return", <<"none">>>>>>
    ELSE <<h, <<"return", DictGet(h[TEMPLATES[2]], template_name)>>>>

get_workflow_template(h, template_name) ==
    IF ~DictHas(h[TEMPLATES[2]], template_name)
    THEN LET keys == DictKeys(h[TEMPLATES[2]])
             r == Materialize(h, ErrorResponse_not_found(
                      <<"Template '">> \o template_name \o <<"'">>,
                      <<"Available: ">>
                      \o PyRepr(h, <<"list", [i \in 1..Len(keys) |-> <<"str", keys[i]>>]>>)))
         IN  <<r[1], <<"return", r[2]>>>>
    ELSE \* json.loads(json.dumps(TEMPLATES[template_name]))
         LET text == JsonDumps(h, DictGet(h[TEMPLATES[2]], template_name), -1)
             r == Materialize(h, JsonLoads(text)[2])
         IN  <<r[1], <<"return", r[2]>>>>

list_templates(h) ==
    LET keys == DictKeys(h[TEMPLATES[2]])
    IN  <<h, <<"return", <<"list", [i \in 1..Len(keys) |-> <<"str", keys[i]>>]>>>>>>

\* The connection check without len(value) == 2
RECURSIVE ConnectionIssues_anylen(_, _, _, _)
ConnectionIssues_anylen(h, node_id, items, node_ids) ==
    IF Len(items) = 0 THEN <<>>
    ELSE
    LET input_name == Head(items)[1]
        value == Head(items)[2]
        ref_node == PyStr(h, value[2][1])
    IN  (IF value[1] = "list" /\ Len(value[2]) > 0 /\ ref_node \notin node_ids
         THEN << <<"Node ">> \o node_id \o <<".">> \o input_name \o <<": ">>
                 \o <<"references non-existent node ">> \o ref_node >>
         ELSE <<>>)
        \o ConnectionIssues_anylen(h, node_id, Tail(items), node_ids)

\* The issues of the connections among a node's inputs, in the inputs' order
RECURSIVE ConnectionIssues(_, _, _, _)
ConnectionIssues(h, node_id, items, node_ids) ==
    IF Len(items) = 0 THEN <<>>
    ELSE
    LET input_name == Head(items)[1]
        value == Head(items)[2]
        ref_node == PyStr(h, value[2][1])
    IN  (IF value[1] = "list" /\ Len(value[2]) = 2 /\ ref_node \notin node_ids
         THEN << <<"Node ">> \o node_id \o <<".">> \o input_name \o <<": ">>
                 \o <<"references non-existent node ">> \o ref_node >>
         ELSE <<>>)
        \o ConnectionIssues(h, node_id, Tail(items), node_ids)

\* One pass of the loop over workflow.items()
NodeIssues(h, node_id, node, node_ids) ==
    LET d == ItemsOf(h, node)
    IN  (IF ~DictHas(d, <<"class_type">>)
         THEN << <<"Node ">> \o node_id \o <<": missing class_type">> >>
         ELSE <<>>)
        \o (IF ~DictHas(d, <<"inputs">>)
            THEN << <<"Node ">> \o node_id \o <<": missing inputs">> >>
            ELSE <<>>)
        \o (IF DictHas(d, <<"inputs">>)
            THEN ConnectionIssues(h, node_id, ItemsOf(h, DictGet(d, <<"inputs">>)), node_ids)
            ELSE <<>>)

RECURSIVE WorkflowIssues(_, _, _)
WorkflowIssues(h, items, node_ids) ==
    IF Len(items) = 0 THEN <<>>
    ELSE NodeIssues(h, Head(items)[1], Head(items)[2], node_ids)
         \o WorkflowIssues(h, Tail(items), node_ids)

\* The result dict, as a record of its three keys
validate_workflow(h, workflow) ==
    LET issues == WorkflowIssues(h, h[workflow[2]], DictKeySet(h[workflow[2]]))
    IN  <<h, <<"return", [valid |-> Len(issues) = 0,
                          node_count |-> Len(h[workflow[2]]),
                          issues |-> issues]>>>>

\* ---------------------------------------------------------------- Workflow (models.py)
\* A WorkflowNode is <<"WorkflowNode", class_type, inputs>>, a Workflow
\* <<"Workflow", nodes>>, nodes the items of its dict of WorkflowNodes.

\* WorkflowNode(**node_data): class_type is a required str, inputs a dict
\* that defaults to {}, any other key is ignored
WorkflowNode(h, node_data) ==
    LET d == ItemsOf(h, node_data)
    IN  CASE ~DictHas(d, <<"class_type">>) -> <<"raise", "ValidationError">>
          [] DictHas(d, <<"class_type">>) /\ DictGet(d, <<"class_type">>)[1] # "str" ->
                <<"raise", "ValidationError">>
          [] DictHas(d, <<"inputs">>) /\ ~IsDict(DictGet(d, <<"inputs">>)) ->
                <<"raise", "ValidationError">>
          [] OTHER ->
                <<"return",
                  <<"WorkflowNode", DictGet(d, <<"class_type">>),
                    IF DictHas(d, <<"inputs">>)
                    THEN Deref(h, DictGet(d, <<"inputs">>))
                    ELSE <<"dict", <<>>>> >> >>

\* The loop of from_api_format over data.items()
RECURSIVE FromApiNodes(_, _, _)
FromApiNodes(h, items, nodes) ==
    LET r == WorkflowNode(h, Head(items)[2])
    IN  CASE Len(items) = 0 -> <<"return", <<"Workflow", nodes>>>>
          [] Len(items) > 0 /\ r[1] = "raise" -> r
          [] OTHER -> FromApiNodes(h, Tail(items), DictSet(nodes, Head(items)[1], r[2]))

Workflow_from_api_format(h, data) == FromApiNodes(h, ItemsOf(h, data), <<>>)

\* model_dump(exclude_defaults=True): inputs left out when it is {}
WorkflowNode_model_dump_exclude_defaults(node) ==
    IF node[3] = <<"dict", <<>>>>
    THEN <<"dict", << <<<<"class_type">>, node[2]>> >> >>
    ELSE <<"dict", << <<<<"class_type">>, node[2]>>, <<<<"inputs">>, node[3]>> >> >>

\* WorkflowNode.model_dump()
WorkflowNode_model_dump(node) ==
    <<"dict", << <<<<"class_type">>, node[2]>>, <<<<"inputs">>, node[3]>> >> >>

\* {k: v.model_dump() for k, v in self.nodes.items()}
Workflow_to_api_format(self) ==
    <<"dict", [i \in 1..Len(self[2]) |->
                  <<self[2][i][1], WorkflowNode_model_dump(self[2][i][2])>>]>>

\* self.nodes[node_id] = WorkflowNode(class_type=class_type, inputs=inputs)
Workflow_add_node(self, node_id, class_type, inputs) ==
    <<"Workflow", DictSet(self[2], node_id, <<"WorkflowNode", class_type, inputs>>)>>

\* ---------------------------------------------------------------- the workflows directory
\* fs is the directory settings.workflows_dir names: whether it exists, and
\* the text of each file in it.

EndsWith(name, suffix) == Len(name) > 0 /\ name[Len(name)] = suffix

FsExists(fs, name) == fs.exists /\ name \in DOMAIN fs.files

\* path.parent.mkdir(parents=True, exist_ok=True); open(path, "w")
FsOpenW(fs, name) ==
    [exists |-> TRUE,
     files |-> [f \in (DOMAIN fs.files) \cup {name} |-> IF f = name THEN <<>> ELSE fs.files[f]]]

\* a write of chars at an offset of the file (a gap is filled with NUL)
FsWriteAt(fs, name, offset, chars) ==
    LET old == fs.files[name]
        pad == IF offset > Len(old) THEN [i \in 1..(offset - Len(old)) |-> "NUL"] ELSE <<>>
        new == SubSeq(old, 1, IF offset < Len(old) THEN offset ELSE Len(old)) \o pad \o chars
               \o SubSeq(old, offset + Len(chars) + 1, Len(old))
    IN  [fs EXCEPT !.files = [f \in DOMAIN fs.files |-> IF f = name THEN new ELSE fs.files[f]]]

\* save_workflow up to the open: <<"opened", name>>, or the error it returns
save_workflow_name(workflows_dir, name) ==
    IF workflows_dir[1] = "none"
    THEN <<"return", <<"str", <<"Error: COMFY_WORKFLOWS_DIR not configured">>>>>>
    ELSE <<"opened", IF EndsWith(name, ".json") THEN name ELSE name \o <<".json">>>>

\* save_workflow that opens the file without truncating it (mode "r+")
save_workflow_keep(h, fs, workflows_dir, workflow, name) ==
    LET o == save_workflow_name(workflows_dir, name)
        opened == IF FsExists(fs, o[2]) THEN fs ELSE FsOpenW(fs, o[2])
    IN  IF o[1] = "return"
        THEN <<fs, o>>
        ELSE <<FsWriteAt(opened, o[2], 0, JsonDumps(h, workflow, 2)),
               <<"return", <<"str", <<"Saved: ">> \o workflows_dir[2] \o <<"/">> \o o[2]>>>>>>

\* save_workflow as one step: <<fs, outcome>>
save_workflow(h, fs, workflows_dir, workflow, name) ==
    LET o == save_workflow_name(workflows_dir, name)
    IN  IF o[1] = "return"
        THEN <<fs, o>>
        ELSE <<FsWriteAt(FsOpenW(fs, o[2]), o[2], 0, JsonDumps(h, workflow, 2)),
               <<"return", <<"str", <<"Saved: ">> \o workflows_dir[2] \o <<"/">> \o o[2]>>>>>>

\* load_workflow up to the open: <<"open", name>>, or the error it returns
load_workflow_name(fs, workflows_dir, workflow_name) ==
    CASE workflows_dir[1] = "none" ->
            <<"return", ErrorResponse_not_configured(<<"COMFY_WORKFLOWS_DIR">>)>>
      [] workflows_dir[1] # "none" /\ ~FsExists(fs, workflow_name) ->
            <<"return", ErrorResponse_not_found(
                            <<"Workflow '">> \o workflow_name \o <<"'">>,
                            <<"Use list_workflows() to see available workflows">>)>>
      [] OTHER -> <<"open", workflow_name>>

\* with open(wf_path) as f: return json.load(f)
load_workflow_read(h, fs, name) ==
    LET loaded == JsonLoads(fs.files[name])
        r == Materialize(h, loaded[2])
    IN  IF loaded[1]
        THEN <<r[1], <<"return", r[2]>>>>
        ELSE <<h, <<"raise", "JSONDecodeError">>>>

\* load_workflow as one step: <<heap, outcome>>
load_workflow(h, fs, workflows_dir, workflow_name) ==
    LET o == load_workflow_name(fs, workflows_dir, workflow_name)
        r == Materialize(h, o[2])
    IN  IF o[1] = "return"
        THEN <<r[1], <<"return", r[2]>>>>
        ELSE load_workflow_read(h, fs, o[2])

\* ---------------------------------------------------------------- the session
\* A client of the tools: it keeps the workflows the tools gave it (wf) and
\* passes them back to the tools, which change them in place.

MaxOps == 3
BufferSize == 64

Handles == {1, 2}
Procs == {1, 2}
Unbound == <<"unbound">>

TemplateArgs == {<<"empty">>, <<"fal-flux-dev">>, <<"fal-flux-schnell">>, <<"sdxl">>}
NodeIdArgs == {<<"1">>, <<"8">>}
NodeTypeArgs == {Str("C")}
InputNameArgs == {<<"y">>}
\* {}, {"text": "hello"}, {"x": ["1", 0]}
InputsArgs ==
    { <<"dict", <<>>>>,
      <<"dict", << <<<<"text">>, Str("hello")>> >>>>,
      <<"dict", << <<<<"x">>, <<"list", <<Str("1"), <<"int", 0>>>>>>>> >>>> }
\* hello    ["1", 0]    1    ["8", 0
ValueArgs ==
    { <<"hello">>,
      <<"[", Quote, "1", Quote, ",", Blank, "0", "]">>,
      <<"1">>,
      <<"[", Quote, "8", Quote, ",", Blank, "0">> }
FileNameArgs == {<<"a">>, <<"a", ".json">>}

\* Documents found in the workflows directory
Doc(nodes) == <<"dict", nodes>>
Conn(source, output) == <<"list", <<source, <<"int", output>>>>>>
RawDocs ==
    { \* {"1": {class_type: "A", inputs: {}}, "2": {class_type: "B", inputs: {"x": ["1", 0]}}}
      Doc(<< << <<"1">>, Node("A", <<>>) >>,
             << <<"2">>, Node("B", << <<<<"x">>, Conn(Str("1"), 0)>> >>) >> >>),
      \* {"1": {class_type: "A"}}
      Doc(<< << <<"1">>, <<"dict", << <<<<"class_type">>, Str("A")>> >>>> >> >>),
      \* {"1": {inputs: {"x": ["2", 0]}}}
      Doc(<< << <<"1">>, <<"dict", << <<<<"inputs">>,
                  <<"dict", << <<<<"x">>, Conn(Str("2"), 0)>> >>>>>> >>>> >> >>),
      \* {"2": {class_type: "B", inputs: {"x": [1, 0], "y": ["1", 0], "z": [3, 0, 1]}},
      \*  "1": {class_type: "A", inputs: {"p": {"a": 1}}, "_meta": {"title": "t"}}}
      Doc(<< << <<"2">>, Node("B", << <<<<"x">>, Conn(<<"int", 1>>, 0)>>,
                                      <<<<"y">>, Conn(Str("1"), 0)>>,
                                      <<<<"z">>, <<"list", <<<<"int", 3>>, <<"int", 0>>,
                                                             <<"int", 1>>>>>>>> >>) >>,
             << <<"1">>, <<"dict", <<
                    <<<<"class_type">>, Str("A")>>,
                    <<<<"inputs">>, <<"dict", << <<<<"p">>,
                          <<"dict", << <<<<"a">>, <<"int", 1>>>> >>>>>> >>>>>>,
                    <<<<"_meta">>, <<"dict", << <<<<"title">>, Str("t")>> >>>>>> >>>> >> >>),
      \* {"1": {}, "3": {class_type: "C", inputs: {"x": ["1", 0], "y": ["9", 1],
      \*                                           "w": [9, 0], "size": [3.5, 2]}}}
      Doc(<< << <<"1">>, <<"dict", <<>>>> >>,
             << <<"3">>, Node("C", << <<<<"x">>, Conn(Str("1"), 0)>>,
                                      <<<<"y">>, Conn(Str("9"), 1)>>,
                                      <<<<"w">>, Conn(<<"int", 9>>, 0)>>,
                                      <<<<"size">>, Conn(<<"float", 3, <<"5">>>>, 2)>> >>) >> >>),
      \* {}
      Doc(<<>>) }

VARIABLES
    heap,           \* the dicts of the process
    wf,             \* the client's workflows: handle -> a dict of the heap, or Unbound
    origin,         \* where each of them came from
    model,          \* the client's Workflow (models.py), or Unbound
    fs,             \* the workflows directory
    workflows_dir,  \* settings.workflows_dir: <<"none">> or a str
    calls,          \* the save and load calls under way, by process
    saves,          \* what save_workflow was given: <<name, file, content>>, in call order
    last,           \* the last call: tool, arguments, outcome
    nops            \* calls made

vars == <<heap, wf, origin, model, fs, workflows_dir, calls, saves, last, nops>>

Idle == [tool |-> "idle", pc |-> "idle", name |-> <<>>, text |-> <<>>, offset |-> 0,
         outcome |-> <<"none">>]
NoFiles == [exists |-> FALSE, files |-> <<>>]
Configured == <<"str", <<"workflows">>>>

\* The interpreter after the import, a client that holds nothing yet
InitSession ==
    /\ heap = ImportModule[1]
    /\ wf = [k \in Handles |-> Unbound]
    /\ origin = [k \in Handles |-> <<"none">>]
    /\ model = Unbound
    /\ calls = [p \in Procs |-> Idle]
    /\ saves = <<>>
    /\ last = [tool |-> "none", args |-> <<>>, outcome |-> <<"none">>]
    /\ nops = 0

Init ==
    /\ InitSession
    /\ fs = NoFiles
    /\ workflows_dir = Configured

\* The call of a tool that gave r = <<heap, outcome>>
Called(tool, args, r) ==
    /\ nops < MaxOps
    /\ nops' = nops + 1
    /\ heap' = r[1]
    /\ last' = [tool |-> tool, args |-> args, outcome |-> r[2]]
    /\ UNCHANGED <<workflows_dir, calls>>

CreateWorkflow(k) ==
    LET r == create_workflow(heap)
    IN  /\ wf[k] = Unbound
        /\ Called("create_workflow", <<k>>, r)
        /\ wf' = [wf EXCEPT ![k] = r[2][2]]
        /\ origin' = [origin EXCEPT ![k] = <<"created">>]
        /\ UNCHANGED <<model, fs, saves>>

GetWorkflowTemplate(k, template_name) ==
    LET r == get_workflow_template(heap, template_name)
        found == DictHas(heap[TEMPLATES[2]], template_name)
    IN  /\ wf[k] = Unbound
        /\ Called("get_workflow_template", <<k, template_name>>, r)
        /\ wf' = IF found THEN [wf EXCEPT ![k] = r[2][2]] ELSE wf
        /\ origin' = IF found
                     THEN [origin EXCEPT ![k] = <<"template", template_name>>]
                     ELSE origin
        /\ UNCHANGED <<model, fs, saves>>

AddNode(k, node_id, node_type, inputs) ==
    LET arg == Materialize(heap, inputs)
        r == add_node(arg[1], wf[k], node_id, node_type, arg[2])
    IN  /\ wf[k] # Unbound
        /\ Called("add_node", <<k, node_id, node_type, inputs>>, r)
        /\ UNCHANGED <<wf, origin, model, fs, saves>>

RemoveNode(k, node_id) ==
    LET r == remove_node(heap, wf[k], node_id)
    IN  /\ wf[k] # Unbound
        /\ Called("remove_node", <<k, node_id>>, r)
        /\ UNCHANGED <<wf, origin, model, fs, saves>>

UpdateNodeInput(k, node_id, input_name, value) ==
    LET r == update_node_input(heap, wf[k], node_id, input_name, value)
    IN  /\ wf[k] # Unbound
        /\ Called("update_node_input", <<k, node_id, input_name, value>>, r)
        /\ UNCHANGED <<wf, origin, model, fs, saves>>

ValidateWorkflow(k) ==
    LET r == validate_workflow(heap, wf[k])
    IN  /\ wf[k] # Unbound
        /\ Called("validate_workflow", <<k>>, r)
        /\ UNCHANGED <<wf, origin, model, fs, saves>>

\* load_workflow: the client keeps what it gave when that is a file's document
LoadWorkflow(k, workflow_name) ==
    LET r == load_workflow(heap, fs, workflows_dir, workflow_name)
        read == load_workflow_name(fs, workflows_dir, workflow_name)[1] = "open"
        kept == read /\ r[2][1] = "return" /\ IsDict(r[2][2])
    IN  /\ wf[k] = Unbound
        /\ Called("load_workflow", <<k, workflow_name>>, r)
        /\ wf' = IF kept THEN [wf EXCEPT ![k] = r[2][2]] ELSE wf
        /\ origin' = IF kept THEN [origin EXCEPT ![k] = <<"file", workflow_name>>] ELSE origin
        /\ UNCHANGED <<model, fs, saves>>

SaveWorkflow(k, name) ==
    LET r == save_workflow(heap, fs, workflows_dir, wf[k], name)
        o == save_workflow_name(workflows_dir, name)
    IN  /\ wf[k] # Unbound
        /\ Called("save_workflow", <<k, name>>, <<heap, r[2]>>)
        /\ fs' = r[1]
        /\ saves' = IF o[1] = "opened"
                    THEN Append(saves, <<name, o[2], Content(heap, wf[k])>>)
                    ELSE saves
        /\ UNCHANGED <<wf, origin, model>>

\* Workflow.from_api_format(wf[k]): the client keeps the Workflow it gave
FromApiFormat(k) ==
    LET o == Workflow_from_api_format(heap, wf[k])
    IN  /\ wf[k] # Unbound
        /\ Called("from_api_format", <<k>>, <<heap, o>>)
        /\ model' = IF o[1] = "return" THEN o[2] ELSE model
        /\ UNCHANGED <<wf, origin, fs, saves>>

\* model.to_api_format()
ToApiFormat ==
    /\ model # Unbound
    /\ Called("to_api_format", <<model>>, <<heap, <<"return", Workflow_to_api_format(model)>>>>)
    /\ UNCHANGED <<wf, origin, model, fs, saves>>

\* model.add_node(node_id, class_type, inputs)
ModelAddNode(node_id, class_type, inputs) ==
    /\ model # Unbound
    /\ Called("Workflow.add_node", <<model, node_id, class_type, inputs>>,
              <<heap, <<"return", Workflow_add_node(model, node_id, class_type, inputs)>>>>)
    /\ model' = Workflow_add_node(model, node_id, class_type, inputs)
    /\ UNCHANGED <<wf, origin, fs, saves>>

Create == \E k \in Handles : CreateWorkflow(k)
GetTemplate == \E k \in Handles, t \in TemplateArgs : GetWorkflowTemplate(k, t)
Add == \E k \in Handles, n \in NodeIdArgs, c \in NodeTypeArgs, i \in InputsArgs :
          AddNode(k, n, c, i)
Remove == \E k \in Handles, n \in NodeIdArgs : RemoveNode(k, n)
Update == \E k \in Handles, n \in NodeIdArgs, i \in InputNameArgs, v \in ValueArgs :
             UpdateNodeInput(k, n, i, v)
Validate == \E k \in Handles : ValidateWorkflow(k)
Load == \E k \in Handles, f \in FileNameArgs : LoadWorkflow(k, f)
Save == \E k \in Handles, f \in FileNameArgs : SaveWorkflow(k, f)
FromApi == \E k \in Handles : FromApiFormat(k)
ModelAdd == \E n \in NodeIdArgs, c \in NodeTypeArgs, i \in InputsArgs : ModelAddNode(n, c, i)

\* A client that creates workflows and takes templates
Next == Create \/ GetTemplate \/ Add \/ Remove \/ Update \/ Validate

Spec == Init /\ [][Next]_vars

\* A client that works on the documents of the workflows directory
InitFiles ==
    /\ InitSession
    /\ workflows_dir \in {<<"none">>, Configured}
    /\ fs \in {NoFiles}
             \cup {[exists |-> TRUE, files |-> [f \in {<<"a", ".json">>} |-> JsonDumps(<<>>, d, 2)]]
                   : d \in RawDocs}

NextFiles ==
    \/ Create \/ Load \/ Save \/ Add \/ Remove \/ Update \/ Validate
    \/ FromApi \/ ToApiFormat \/ ModelAdd

SpecFiles == InitFiles /\ [][NextFiles]_vars

\* ---------------------------------------------------------------- concurrent calls
\* Server processes that share the workflows directory. A save is its open,
\* the writes of its full buffers, and its close; a load is its exists()
\* and its read. Each process writes through its own file position.

\* {"1": {class_type: "A", inputs: {}}, "2": {class_type: "B", inputs: {"x": ["1", 0]}}}
ExampleDoc ==
    Doc(<< << <<"1">>, Node("A", <<>>) >>,
           << <<"2">>, Node("B", << <<<<"x">>, Conn(Str("1"), 0)>> >>) >> >>)

ConcGraphs ==
    LET a == get_workflow_template(ImportModule[1], <<"fal-flux-schnell">>)
        b == Materialize(a[1], ExampleDoc)
    IN  <<b[1], a[2][2], b[2]>>

InitConc ==
    /\ heap = ConcGraphs[1]
    /\ wf = [k \in Handles |-> ConcGraphs[k + 1]]
    /\ origin = [k \in Handles |-> <<"none">>]
    /\ model = Unbound
    /\ calls = [p \in Procs |-> Idle]
    /\ last = [tool |-> "none", args |-> <<>>, outcome |-> <<"none">>]
    /\ nops = 0
    /\ workflows_dir = Configured
    /\ \/ fs = NoFiles /\ saves = <<>>
       \/ /\ fs = [exists |-> TRUE,
                   files |-> [f \in {<<"a", ".json">>} |-> JsonDumps(<<>>, ExampleDoc, 2)]]
          /\ saves = << <<<<"a">>, <<"a", ".json">>, Content(<<>>, ExampleDoc)>> >>

\* save_workflow up to open(path, "w")
SaveOpen(p, k, name) ==
    LET o == save_workflow_name(workflows_dir, name)
    IN  /\ calls[p].pc = "idle"
        /\ nops < MaxOps
        /\ o[1] = "opened"
        /\ nops' = nops + 1
        /\ fs' = FsOpenW(fs, o[2])
        /\ calls' = [calls EXCEPT ![p] =
                        [tool |-> "save_workflow", pc |-> "writing", name |-> o[2],
                         text |-> JsonDumps(heap, wf[k], 2), offset |-> 0,
                         outcome |-> <<"none">>]]
        /\ saves' = Append(saves, <<name, o[2], Content(heap, wf[k])>>)
        /\ UNCHANGED <<heap, wf, origin, model, workflows_dir, last>>

\* json.dump filled the buffer: it is written out
SaveWrite(p) ==
    LET c == calls[p]
    IN  /\ c.pc = "writing"
        /\ Len(c.text) - c.offset > BufferSize
        /\ fs' = FsWriteAt(fs, c.name, c.offset,
                           SubSeq(c.text, c.offset + 1, c.offset + BufferSize))
        /\ calls' = [calls EXCEPT ![p] = [c EXCEPT !.offset = c.offset + BufferSize]]
        /\ UNCHANGED <<heap, wf, origin, model, workflows_dir, saves, last, nops>>

\* the end of the with block writes the rest; the tool returns
SaveClose(p) ==
    LET c == calls[p]
        outcome == <<"return", <<"str", <<"Saved: ">> \o workflows_dir[2] \o <<"/">> \o c.name>>>>
    IN  /\ c.pc = "writing"
        /\ Len(c.text) - c.offset <= BufferSize
        /\ fs' = FsWriteAt(fs, c.name, c.offset, SubSeq(c.text, c.offset + 1, Len(c.text)))
        /\ calls' = [calls EXCEPT ![p] = [Idle EXCEPT !.outcome = outcome]]
        /\ last' = [tool |-> "save_workflow", args |-> <<p, c.name>>, outcome |-> outcome]
        /\ UNCHANGED <<heap, wf, origin, model, workflows_dir, saves, nops>>

\* load_workflow up to wf_path.exists()
LoadCheck(p, workflow_name) ==
    LET o == load_workflow_name(fs, workflows_dir, workflow_name)
    IN  /\ calls[p].pc = "idle"
        /\ nops < MaxOps
        /\ nops' = nops + 1
        /\ calls' = [calls EXCEPT ![p] =
                        IF o[1] = "return"
                        THEN [Idle EXCEPT !.outcome = o]
                        ELSE [tool |-> "load_workflow", pc |-> "open", name |-> o[2],
                              text |-> <<>>, offset |-> 0, outcome |-> <<"none">>]]
        /\ last' = IF o[1] = "return"
                   THEN [tool |-> "load_workflow", args |-> <<p, workflow_name, "absent">>,
                         outcome |-> o]
                   ELSE last
        /\ UNCHANGED <<heap, wf, origin, model, fs, workflows_dir, saves>>

\* with open(wf_path) as f: return json.load(f)
LoadRead(p) ==
    LET c == calls[p]
        r == load_workflow_read(heap, fs, c.name)
    IN  /\ c.pc = "open"
        /\ heap' = r[1]
        /\ calls' = [calls EXCEPT ![p] = [Idle EXCEPT !.outcome = r[2]]]
        /\ last' = [tool |-> "load_workflow", args |-> <<p, c.name, "read">>, outcome |-> r[2]]
        /\ UNCHANGED <<wf, origin, model, fs, workflows_dir, saves, nops>>

SaveStart == \E p \in Procs, k \in Handles, f \in FileNameArgs : SaveOpen(p, k, f)
SaveStep == \E p \in Procs : SaveWrite(p)
SaveEnd == \E p \in Procs : SaveClose(p)
LoadStart == \E p \in Procs, f \in FileNameArgs : LoadCheck(p, f)
LoadEnd == \E p \in Procs : LoadRead(p)

NextConc == SaveStart \/ SaveStep \/ SaveEnd \/ LoadStart \/ LoadEnd

SpecConc == InitConc /\ [][NextConc]_vars

\* ---------------------------------------------------------------- properties

\* A graph by content: the function from its node ids to its nodes
Graph(h, w) == Content(h, w)[2]
HasField(node, field) == <<field>> \in DOMAIN node[2]
InputsOf(node) == node[2][<<"inputs">>][2]
IsConnection(v) == v[1] = "list" /\ Len(v[2]) = 2
Source(v) == PyStr(<<>>, v[2][1])
Issues(h, w) == validate_workflow(h, w)[2][2].issues
IsValid(h, w) == validate_workflow(h, w)[2][2].valid
NodeCount(h, w) == validate_workflow(h, w)[2][2].node_count
RefIssue(m, i, n) ==
    <<"Node ">> \o m \o <<".">> \o i \o <<": ">> \o <<"references non-existent node ">> \o n
MissingClassType(m) == <<"Node ">> \o m \o <<": missing class_type">>
MissingInputs(m) == <<"Node ">> \o m \o <<": missing inputs">>
IsCall == nops' = nops + 1
Bound(k) == wf[k] # Unbound
CatalogEntry(t) ==
    Content(<<>>, DictGet(TEMPLATES_literal[2], t))

\* C1: the catalog never changes, every get(T) gives a graph equal to the
\* original entry of T, and a call on one of the client's graphs changes no
\* other graph of the client.
TemplatesIsolated ==
    /\ [](Content(heap, TEMPLATES) = Content(<<>>, TEMPLATES_literal))
    /\ []((last.tool = "get_workflow_template" /\ DictHas(TEMPLATES_literal[2], last.args[2]))
            => /\ last.outcome[1] = "return"
               /\ Content(heap, last.outcome[2]) = CatalogEntry(last.args[2]))
    /\ [][IsCall => \A k \in Handles :
                (Bound(k) /\ k # last'.args[1]) =>
                    /\ wf'[k] = wf[k]
                    /\ Content(heap', wf[k]) = Content(heap, wf[k])]_vars

\* Two graphs taken from the same template, the first changed since, the
\* second taken after that
TemplatesIsolatedWitness ==
    /\ last.tool = "get_workflow_template"
    /\ last.args = <<2, <<"fal-flux-schnell">>>>
    /\ origin[1] = <<"template", <<"fal-flux-schnell">>>>
    /\ origin[2] = <<"template", <<"fal-flux-schnell">>>>
    /\ Content(heap, wf[1]) # Content(heap, wf[2])

\* C10: every graph made by create_workflow or get_workflow_template and
\* changed by add_node, remove_node and update_node_input has class_type and
\* inputs on every node; update_node_input never fails on it and validate
\* reports no missing field, only references to non-existent nodes.
WellFormedGraphs ==
    /\ \A k \in Handles : Bound(k) =>
          \A m \in DOMAIN Graph(heap, wf[k]) :
              /\ HasField(Graph(heap, wf[k])[m], "class_type")
              /\ HasField(Graph(heap, wf[k])[m], "inputs")
    /\ last.tool = "update_node_input" => last.outcome[1] = "return"
    /\ last.tool = "validate_workflow" =>
          \A i \in 1..Len(last.outcome[2].issues) :
              LET issue == last.outcome[2].issues[i]
              IN  /\ issue[Len(issue)] \notin {": missing class_type", ": missing inputs"}
                  /\ \E j \in 1..Len(issue) : issue[j] = "references non-existent node "

\* A created graph that got a node, then a connection to a node it lacks,
\* and was validated
WellFormedGraphsWitness ==
    /\ last.tool = "validate_workflow"
    /\ origin[last.args[1]] = <<"created">>
    /\ ~last.outcome[2].valid
    /\ Len(last.outcome[2].issues) = 1

\* What validate is to report after n went: one issue for each input of a
\* remaining node that is a connection to n
DanglingAfter(G, n) ==
    { RefIssue(m, i, n) : <<m, i>> \in
        { mi \in UNION { {<<m, i>> : i \in DOMAIN InputsOf(G[m])} : m \in DOMAIN G \ {n} } :
            /\ IsConnection(InputsOf(G[mi[1]])[mi[2]])
            /\ Source(InputsOf(G[mi[1]])[mi[2]]) = n } }

\* C4: on a graph that validates, remove_node(n) leaves exactly one
\* 'references non-existent node' issue for each connection of a remaining
\* node to n and no other issue; removing an absent id changes neither the
\* graph nor its validation result.
RemoveKeepsReferences ==
    [][(IsCall /\ last'.tool = "remove_node") =>
          LET k == last'.args[1]
              n == last'.args[2]
              G == Graph(heap, wf[k])
              after == Issues(heap', wf[k])
          IN  /\ last'.outcome = <<"return", wf[k]>>
              /\ IsValid(heap, wf[k]) =>
                    /\ Range(after) = DanglingAfter(G, n)
                    /\ Len(after) = Cardinality(DanglingAfter(G, n))
                    /\ IsValid(heap', wf[k]) = (DanglingAfter(G, n) = {})
                    /\ Graph(heap', wf[k]) = [m \in DOMAIN G \ {n} |-> G[m]]
              /\ n \notin DOMAIN G =>
                    /\ Graph(heap', wf[k]) = G
                    /\ validate_workflow(heap', wf[k])[2] = validate_workflow(heap, wf[k])[2]]_vars

\* Node "1" of a template graph was removed: the graph no longer validates
RemoveKeepsReferencesWitness ==
    /\ last.tool = "remove_node"
    /\ last.args[2] = <<"1">>
    /\ origin[last.args[1]] = <<"template", <<"fal-flux-dev">>>>
    /\ nops = 2
    /\ ~IsValid(heap, wf[last.args[1]])
    /\ Issues(heap, wf[last.args[1]]) = <<RefIssue(<<"7">>, <<"images">>, <<"1">>)>>

\* The issues validate is to report for node m of G
IssuesOf(G, m) ==
    (IF HasField(G[m], "class_type") THEN {} ELSE {MissingClassType(m)})
    \cup (IF HasField(G[m], "inputs")
          THEN { RefIssue(m, i, Source(InputsOf(G[m])[i])) :
                    i \in { j \in DOMAIN InputsOf(G[m]) :
                               /\ IsConnection(InputsOf(G[m])[j])
                               /\ Source(InputsOf(G[m])[j]) \notin DOMAIN G } }
          ELSE {MissingInputs(m)})

\* C2: validate gives the number of nodes and, in the order of the nodes,
\* exactly one issue for each node lacking class_type, one for each node
\* lacking inputs and one for each input that is a 2-element array whose
\* first element, as a string, is not a node id; valid iff there is none.
ValidateExact ==
    last.tool = "validate_workflow" =>
        LET k == last.args[1]
            G == Graph(heap, wf[k])
            order == DictKeys(heap[wf[k][2]])
            result == last.outcome[2]
            expected == UNION { IssuesOf(G, m) : m \in DOMAIN G }
        IN  /\ last.outcome[1] = "return"
            /\ result.node_count = Cardinality(DOMAIN G)
            /\ result.valid = (result.issues = <<>>)
            /\ Range(result.issues) = expected
            /\ Len(result.issues) = Cardinality(expected)
            /\ \A a, b \in 1..Len(result.issues) : a < b =>
                  \E pa, pb \in 1..Len(order) :
                      /\ pa <= pb
                      /\ result.issues[a] \in IssuesOf(G, order[pa])
                      /\ result.issues[b] \in IssuesOf(G, order[pb])

\* A loaded document with a node that has no field at all and a node with
\* three dangling connections was validated
ValidateExactWitness ==
    /\ last.tool = "validate_workflow"
    /\ origin[last.args[1]][1] = "file"
    /\ Len(last.outcome[2].issues) = 5
    /\ last.outcome[2].node_count = 2
    /\ ~last.outcome[2].valid

NewNode(node_type, inputs) ==
    Content(<<>>, <<"dict", << <<<<"class_type">>, node_type>>, <<<<"inputs">>, inputs>> >> >>)
ModelNodes(w) == [m \in DictKeySet(w[2]) |-> DictGet(w[2], m)]

\* C9: add_node puts the node at node_id, replacing the one there, and leaves
\* every other node as it was; on a graph that validates, with a new id and
\* inputs whose connections all have their node, validate stays valid and
\* counts one node more; replacing a node leaves the count. Workflow.add_node
\* does the same on the model.
AddNodeInserts ==
    [][/\ (IsCall /\ last'.tool = "add_node") =>
            LET k == last'.args[1]
                node_id == last'.args[2]
                new == NewNode(last'.args[3], last'.args[4])
                G == Graph(heap, wf[k])
                after == Graph(heap', wf[k])
            IN  /\ last'.outcome = <<"return", wf[k]>>
                /\ after = [m \in DOMAIN G \cup {node_id} |-> IF m = node_id THEN new ELSE G[m]]
                /\ node_id \in DOMAIN G => NodeCount(heap', wf[k]) = NodeCount(heap, wf[k])
                /\ ( /\ IsValid(heap, wf[k])
                     /\ node_id \notin DOMAIN G
                     /\ \A i \in DOMAIN InputsOf(new) :
                           IsConnection(InputsOf(new)[i]) =>
                               Source(InputsOf(new)[i]) \in DOMAIN G \cup {node_id} )
                   => /\ IsValid(heap', wf[k])
                      /\ NodeCount(heap', wf[k]) = NodeCount(heap, wf[k]) + 1
       /\ (IsCall /\ last'.tool = "Workflow.add_node") =>
            LET node_id == last'.args[2]
                new == <<"WorkflowNode", last'.args[3], last'.args[4]>>
                nodes == ModelNodes(model)
            IN  ModelNodes(model') =
                   [m \in DOMAIN nodes \cup {node_id} |-> IF m = node_id THEN new ELSE nodes[m]]
      ]_vars

\* Node "8" was added to the valid two-node graph of a file: three nodes, valid
AddNodeInsertsWitness ==
    /\ last.tool = "add_node"
    /\ last.args[2] = <<"8">>
    /\ origin[last.args[1]][1] = "file"
    /\ IsValid(heap, wf[last.args[1]])
    /\ NodeCount(heap, wf[last.args[1]]) = 3

\* A node object as WorkflowNode keeps it: class_type, inputs ({} when the
\* object has none), nothing else
Kept(node) ==
    <<"dict", [f \in {<<"class_type">>, <<"inputs">>} |->
                  IF f = <<"inputs">> /\ ~HasField(node, "inputs")
                  THEN <<"dict", <<>>>>
                  ELSE node[2][f]]>>
RoundTrip(w) == Graph(<<>>, Workflow_to_api_format(w))
HasClassType(node) == HasField(node, "class_type") /\ node[2][<<"class_type">>][1] = "str"

LastSaved(sel) == saves[CHOOSE i \in sel : \A j \in sel : j <= i][3]

GraphOps ==
    {"add_node", "remove_node", "update_node_input", "validate_workflow",
     "from_api_format", "to_api_format", "Workflow.add_node"}

\* C3: add_node, remove_node, update_node_input, from_api_format,
\* to_api_format and validate_workflow return normally on every graph, also
\* on one with a node that lacks class_type or inputs.
GraphOpsNeverRaise ==
    last.tool \in GraphOps => last.outcome[1] = "return"

\* The value update_node_input is to store: the JSON value of the text, or
\* the text itself when it is not JSON
Parsed(value) ==
    IF JsonLoads(value)[1] THEN Content(<<>>, JsonLoads(value)[2]) ELSE <<"str", value>>

\* C8: update_node_input leaves the graph unchanged when node_id is absent;
\* otherwise it sets inputs[input_name] of that node to the JSON value parsed
\* from value, or to value itself when that is not JSON, and changes nothing
\* else.
UpdateSetsInput ==
    [][(IsCall /\ last'.tool = "update_node_input") =>
          LET k == last'.args[1]
              node_id == last'.args[2]
              input_name == last'.args[3]
              G == Graph(heap, wf[k])
              after == Graph(heap', wf[k])
          IN  /\ last'.outcome = <<"return", wf[k]>>
              /\ DOMAIN after = DOMAIN G
              /\ \A m \in DOMAIN G \ {node_id} : after[m] = G[m]
              /\ node_id \in DOMAIN G =>
                    /\ DOMAIN after[node_id][2] = DOMAIN G[node_id][2] \cup {<<"inputs">>}
                    /\ \A f \in DOMAIN G[node_id][2] \ {<<"inputs">>} :
                          after[node_id][2][f] = G[node_id][2][f]
                    /\ HasField(G[node_id], "inputs") =>
                          \A i \in DOMAIN InputsOf(G[node_id]) \ {input_name} :
                              /\ i \in DOMAIN InputsOf(after[node_id])
                              /\ InputsOf(after[node_id])[i] = InputsOf(G[node_id])[i]
                    /\ DOMAIN InputsOf(after[node_id]) =
                          (IF HasField(G[node_id], "inputs")
                           THEN DOMAIN InputsOf(G[node_id]) ELSE {}) \cup {input_name}
                    /\ InputsOf(after[node_id])[input_name] = Parsed(last'.args[4])]_vars

\* C7: a load that finds the file reads a complete document, one that a
\* save was given: never an empty, truncated or mixed one.
LoadReadsCompleteDocument ==
    (last.tool = "load_workflow" /\ last.args[3] = "read") =>
        /\ last.outcome[1] = "return"
        /\ \E i \in 1..Len(saves) :
              /\ saves[i][2] = last.args[2]
              /\ Content(heap, last.outcome[2]) = saves[i][3]

====
